---- MODULE Spec2Model ----
(***************************************************************************)
(* Model of chrono's offset module: the TimeZone trait's derived           *)
(* constructors (src/offset/mod.rs), LocalResult and its combinators, and  *)
(* the Utc zone (src/offset/utc.rs).                                       *)
(*                                                                         *)
(* The library is a set of pure operations.  The state records the last    *)
(* operation a caller invoked: its name (op), its inputs (args), the       *)
(* values of its locals and the calls it made to collaborators (calls),    *)
(* and its outcome (result).  Every action is one call of one operation.   *)
(*                                                                         *)
(* 64-bit quantities do not fit the model checker's integers, so an i64    *)
(* or u32 is a sequence of NLimbs limbs in radix Base, lowest limb first,  *)
(* all limbs of one sign.  In that form Rust's truncating x / Base^k is    *)
(* the high limbs and x % Base^k the low limbs, sign included.             *)
(***************************************************************************)
EXTENDS Integers, Sequences, FiniteSets, TLC

VARIABLES op, args, locals, calls, result

vars == <<op, args, locals, calls, result>>

----------------------------------------------------------------------------
(* Wide integers *)

\* Radix of a limb.
Base == 1000

\* Limbs of a wide integer: 10^24 > 2^64 * 10^3.
NLimbs == 8

Limb == 1..NLimbs

\* The limbs f[1], ..., f[n] as a sequence.
RECURSIVE Limbs(_, _)
Limbs(f, n) == IF n = 0 THEN <<>> ELSE Append(Limbs(f, n - 1), f[n])

\* The wide integer with limbs f[1], ..., f[NLimbs].
Wide(f) == Limbs(f, NLimbs)

RECURSIVE Pow(_, _)
Pow(b, k) == IF k = 0 THEN 1 ELSE b * Pow(b, k - 1)

\* The wide integer of a model integer n, |n| < 2^31.
FromInt(n) ==
    LET m == IF n < 0 THEN 0 - n ELSE n
        s == IF n < 0 THEN 0 - 1 ELSE 1
    IN  Wide([i \in Limb |-> IF i <= 4 THEN s * ((m \div Pow(Base, i - 1)) % Base) ELSE 0])

IsNeg(x) == \E i \in Limb : x[i] < 0

Negate(x) == Wide([i \in Limb |-> 0 - x[i]])

\* Carry propagation from limb i upward: limbs below the top end in
\* 0..Base-1, the top limb keeps the sign.
RECURSIVE Carry(_, _, _)
Carry(x, i, c) ==
    IF i > NLimbs THEN x
    ELSE LET v == x[i] + c
         IN  IF i = NLimbs THEN [x EXCEPT ![i] = v]
             ELSE Carry([x EXCEPT ![i] = v % Base], i + 1, v \div Base)

\* The one-sign form of a limb vector.
Canon(x) ==
    LET f == Carry(x, 1, 0)
    IN  IF f[NLimbs] >= 0 THEN f ELSE Negate(Carry(Negate(x), 1, 0))

Add(x, y) == Canon(Wide([i \in Limb |-> x[i] + y[i]]))

Sub(x, y) == Canon(Wide([i \in Limb |-> x[i] - y[i]]))

Less(x, y) == IsNeg(Sub(x, y))

LessEq(x, y) == ~Less(y, x)

\* x * Base^k (the top k limbs of x are zero).
MulPow(x, k) == Wide([i \in Limb |-> IF i <= k THEN 0 ELSE x[i - k]])

\* Rust's x / Base^k: the quotient truncated toward zero.
TruncDivPow(x, k) == Wide([i \in Limb |-> IF i + k <= NLimbs THEN x[i + k] ELSE 0])

\* Rust's x % Base^k: the remainder, with the sign of x.
TruncRemPow(x, k) == Wide([i \in Limb |-> IF i <= k THEN x[i] ELSE 0])

\* The number of limbs a power of Base spans.
LimbsOf(scale) == CHOOSE k \in 1..3 : Pow(Base, k) = scale

I64Min == <<0 - 808, 0 - 775, 0 - 854, 0 - 36, 0 - 372, 0 - 223, 0 - 9, 0>>

I64Max == <<807, 775, 854, 36, 372, 223, 9, 0>>

InI64(x) == LessEq(I64Min, x) /\ LessEq(x, I64Max)

\* 2^32, one past u32::MAX.
TwoPow32 == <<296, 967, 294, 4, 0, 0, 0, 0>>

InU32(x) == ~IsNeg(x) /\ Less(x, TwoPow32)

\* 2^64.
TwoPow64 == <<616, 551, 709, 73, 744, 446, 18, 0>>

\* x * m for a small non-negative m (m * Base < 2^31).
MulSmall(x, m) == Canon(Wide([i \in Limb |-> x[i] * m]))

\* x less m when m fits in x.
ReduceBy(x, m) == IF LessEq(m, x) THEN Sub(x, m) ELSE x

\* x modulo 2^32 for 0 <= x < 2^(33 + j): x less 2^32 * 2^j, ..., 2^32 * 1,
\* each where it fits.
RECURSIVE ReduceU32(_, _)
ReduceU32(x, j) ==
    IF j = 0 THEN ReduceBy(x, TwoPow32)
    ELSE CHOOSE r \in {ReduceU32(y, j - 1) :
                          y \in {ReduceBy(x, MulSmall(TwoPow32, Pow(2, j)))}} : TRUE

\* The u32 a wrapping u32 operation leaves of the exact value x >= 0.
WrapU32(x) == ReduceU32(x, 20)

\* The i64 a wrapping i64 operation leaves of the exact value x, |x| < 2^64.
WrapI64(x) ==
    IF Less(I64Max, x) THEN Sub(x, TwoPow64)
    ELSE IF Less(x, I64Min) THEN Add(x, TwoPow64) ELSE x

\* `x as u32` for an i64 x with |x| < 2^32: the value modulo 2^32.
AsU32(x) == IF IsNeg(x) THEN Add(x, TwoPow32) ELSE x

----------------------------------------------------------------------------
(* Errors and outcomes *)

ErrorKind == {"InvalidDate", "InvalidTime", "InvalidDateTime", "AmbiguousDate",
              "SystemTimeBeforeEpoch"}

Ok(v) == [tag |-> "Ok", val |-> v]

Err(k) == [tag |-> "Err", kind |-> k]

Panic(m) == [tag |-> "Panic", msg |-> m]

IsOk(r) == r.tag = "Ok"

----------------------------------------------------------------------------
(* Naive calendar library and the zone-aware value types (collaborators) *)

\* Seconds in a day.
SecsPerDay == 86400

\* Seconds in an hour.
SecsPerHour == 3600

\* 262143-12-31T23:59:59, the last second a NaiveDateTime holds.
MaxTimestamp == <<799, 412, 298, 210, 8, 0, 0, 0>>

\* -262144-01-01T00:00:00, the first second a NaiveDateTime holds.
MinTimestamp == <<0 - 200, 0 - 851, 0 - 632, 0 - 334, 0 - 8, 0, 0, 0>>

\* Nanosecond counts at or above this are no time of day (counts in
\* [10^9, 2 * 10^9) are a leap second).
NanosLimit == <<0, 0, 0, 2, 0, 0, 0, 0>>

\* A naive date-time: whole seconds since the epoch and nanoseconds.
NaiveDateTime(secs, nsecs) == [secs |-> secs, nsecs |-> nsecs]

\* NaiveDateTime::from_timestamp(secs: i64, nsecs: u32).
NaiveDateTime_from_timestamp(secs, nsecs) ==
    IF ~Less(nsecs, NanosLimit) THEN Err("InvalidTime")
    ELSE IF Less(secs, MinTimestamp) \/ Less(MaxTimestamp, secs) THEN Err("InvalidDateTime")
    ELSE Ok(NaiveDateTime(secs, nsecs))

\* FixedOffset::east(secs).
FixedOffset_east(secs) == [kind |-> "FixedOffset", secs |-> secs]

\* NaiveDateTime - FixedOffset.
NaiveDateTime_sub(dt, off) == NaiveDateTime(Sub(dt.secs, FromInt(off.secs)), dt.nsecs)

\* Date::from_utc(date, offset).
Date_from_utc(date, offset) == [date |-> date, offset |-> offset]

\* DateTime::from_utc(datetime, offset).
DateTime_from_utc(datetime, offset) == [datetime |-> datetime, offset |-> offset]

\* The first year a NaiveDate holds.
MinYear == 0 - 262144

\* The last year a NaiveDate holds.
MaxYear == 262143

\* The year of day 0; a NaiveDate is a day number counted from its 1 January.
EpochYear == 1970

\* The weekday of day 0, a Thursday; weekdays count from Monday = 0.
EpochWeekday == 3

\* Leap days of the proleptic Gregorian calendar up to the end of year y.
LeapsThrough(y) == (y \div 4) - (y \div 100) + (y \div 400)

IsLeapYear(y) == y % 4 = 0 /\ (y % 100 # 0 \/ y % 400 = 0)

DaysInYear(y) == IF IsLeapYear(y) THEN 366 ELSE 365

DaysInMonth(y, m) ==
    IF m = 2 THEN (IF IsLeapYear(y) THEN 29 ELSE 28)
    ELSE IF m \in {4, 6, 9, 11} THEN 30 ELSE 31

\* The day number of 1 January of year y.
DayOfJan1(y) ==
    365 * (y - EpochYear) + LeapsThrough(y - 1) - LeapsThrough(EpochYear - 1)

RECURSIVE DaysBeforeMonth(_, _)
DaysBeforeMonth(y, m) ==
    IF m <= 1 THEN 0 ELSE DaysBeforeMonth(y, m - 1) + DaysInMonth(y, m - 1)

\* The Monday that starts ISO week 1 of year y: the week of 4 January.
IsoWeek1Monday(y) ==
    LET jan4 == DayOfJan1(y) + 3
    IN  jan4 - ((jan4 + EpochWeekday) % 7)

\* The number of ISO weeks of year y (52 or 53).
IsoWeeksInYear(y) == (IsoWeek1Monday(y + 1) - IsoWeek1Monday(y)) \div 7

\* NaiveDate::from_ymd(year: i32, month: u32, day: u32).
NaiveDate_from_ymd(year, month, day) ==
    IF year < MinYear \/ year > MaxYear THEN Err("InvalidDate")
    ELSE IF month < 1 \/ month > 12 THEN Err("InvalidDate")
    ELSE IF day < 1 \/ day > DaysInMonth(year, month) THEN Err("InvalidDate")
    ELSE Ok(DayOfJan1(year) + DaysBeforeMonth(year, month) + day - 1)

\* NaiveDate::from_yo(year: i32, ordinal: u32).
NaiveDate_from_yo(year, ordinal) ==
    IF year < MinYear \/ year > MaxYear THEN Err("InvalidDate")
    ELSE IF ordinal < 1 \/ ordinal > DaysInYear(year) THEN Err("InvalidDate")
    ELSE Ok(DayOfJan1(year) + ordinal - 1)

\* NaiveDate::from_isoywd(year: i32, week: u32, weekday: Weekday); the date
\* may lie in the calendar year before or after `year`.
NaiveDate_from_isoywd(year, week, weekday) ==
    IF year < MinYear \/ year > MaxYear THEN Err("InvalidDate")
    ELSE IF week < 1 \/ week > IsoWeeksInYear(year) THEN Err("InvalidDate")
    ELSE LET d == IsoWeek1Monday(year) + 7 * (week - 1) + weekday
         IN  IF d < DayOfJan1(MinYear) \/ d >= DayOfJan1(MaxYear + 1)
             THEN Err("InvalidDate")
             ELSE Ok(d)

----------------------------------------------------------------------------
(* Zones and offsets *)

\* The Utc marker, a zone and its own offset.
Utc == [kind |-> "Utc"]

\* A zone of some other implementer of TimeZone: `local` is what its
\* offset_from_local_* resolvers answer and `utc` what its offset_from_utc_*
\* resolvers answer for the values of the call at hand.
ImplZone(local, utc) == [kind |-> "Impl", local |-> local, utc |-> utc]

\* An offset of such an implementer, secs east of UTC; `re` is "same" when
\* the zone it gives back resolves to it again, else the error that zone's
\* resolvers return.
ImplOffset(secs, re) == [kind |-> "ImplOffset", secs |-> secs, re |-> re]

\* fix answering an hour east.
Utc_fix_HourEast == FixedOffset_east(SecsPerHour)

\* <Utc as Offset>::fix.
Utc_fix == FixedOffset_east(0)

\* Offset::fix.
fix(o) == IF o.kind = "Utc" THEN Utc_fix ELSE FixedOffset_east(o.secs)

\* <Utc as TimeZone>::from_offset.
Utc_from_offset(o) == Utc

\* <Utc as TimeZone>::offset_from_local_date.
Utc_offset_from_local_date(local) == Ok(Utc)

\* <Utc as TimeZone>::offset_from_local_datetime.
Utc_offset_from_local_datetime(local) == Ok(Utc)

\* <Utc as TimeZone>::offset_from_utc_date.
Utc_offset_from_utc_date(utc) == Ok(Utc)

\* <Utc as TimeZone>::offset_from_utc_datetime.
Utc_offset_from_utc_datetime(utc) == Ok(Utc)

\* <Utc as FixedTimeZone>::offset_from_utc_date_fixed.
Utc_offset_from_utc_date_fixed(utc) == Utc

\* <Utc as FixedTimeZone>::offset_from_utc_datetime_fixed.
Utc_offset_from_utc_datetime_fixed(utc) == Utc

\* TimeZone::offset_from_local_date, dispatched on the zone.
offset_from_local_date(tz, local) ==
    IF tz.kind = "Utc" THEN Utc_offset_from_local_date(local) ELSE tz.local

\* TimeZone::offset_from_local_datetime, dispatched on the zone.
offset_from_local_datetime(tz, local) ==
    IF tz.kind = "Utc" THEN Utc_offset_from_local_datetime(local) ELSE tz.local

\* TimeZone::offset_from_utc_date, dispatched on the zone.
offset_from_utc_date(tz, utc) ==
    IF tz.kind = "Utc" THEN Utc_offset_from_utc_date(utc) ELSE tz.utc

\* TimeZone::offset_from_utc_datetime, dispatched on the zone.
offset_from_utc_datetime(tz, utc) ==
    IF tz.kind = "Utc" THEN Utc_offset_from_utc_datetime(utc) ELSE tz.utc

\* The record of a call an operation makes.
Call(fn, arg) == [fn |-> fn, arg |-> arg]

\* What an operation leaves: its outcome, the calls it made, its locals.
Ran(out, cs, ls) == [out |-> out, calls |-> cs, locals |-> ls]

----------------------------------------------------------------------------
(* TimeZone: derived conversions *)

\* TimeZone::from_local_date.
from_local_date(tz, local) ==
    LET c == <<Call("offset_from_local_date", local)>>
        offset == offset_from_local_date(tz, local)
    IN  IF ~IsOk(offset) THEN Ran(offset, c, <<>>)
        ELSE Ran(Ok(Date_from_utc(local, offset.val)), c, <<>>)

\* ymd reporting every failure as an invalid date.
ymd_Rewrapped(tz, year, month, day) ==
    LET c == <<Call("NaiveDate::from_ymd", <<year, month, day>>)>>
        d == NaiveDate_from_ymd(year, month, day)
    IN  IF ~IsOk(d) THEN Ran(d, c, <<>>)
        ELSE LET r == from_local_date(tz, d.val)
             IN  Ran(IF IsOk(r.out) THEN r.out ELSE Err("InvalidDate"),
                     c \o r.calls, <<d.val>>)

\* TimeZone::ymd.
ymd(tz, year, month, day) ==
    LET c == <<Call("NaiveDate::from_ymd", <<year, month, day>>)>>
        d == NaiveDate_from_ymd(year, month, day)
    IN  IF ~IsOk(d) THEN Ran(d, c, <<>>)
        ELSE LET r == from_local_date(tz, d.val)
             IN  Ran(r.out, c \o r.calls, <<d.val>>)

\* TimeZone::yo.
yo(tz, year, ordinal) ==
    LET c == <<Call("NaiveDate::from_yo", <<year, ordinal>>)>>
        d == NaiveDate_from_yo(year, ordinal)
    IN  IF ~IsOk(d) THEN Ran(d, c, <<>>)
        ELSE LET r == from_local_date(tz, d.val)
             IN  Ran(r.out, c \o r.calls, <<d.val>>)

\* TimeZone::isoywd.
isoywd(tz, year, week, weekday) ==
    LET c == <<Call("NaiveDate::from_isoywd", <<year, week, weekday>>)>>
        d == NaiveDate_from_isoywd(year, week, weekday)
    IN  IF ~IsOk(d) THEN Ran(d, c, <<>>)
        ELSE LET r == from_local_date(tz, d.val)
             IN  Ran(r.out, c \o r.calls, <<d.val>>)

\* from_local_datetime storing the local value as the UTC value.
from_local_datetime_Unshifted(tz, local) ==
    LET c == <<Call("offset_from_local_datetime", local)>>
        offset == offset_from_local_datetime(tz, local)
    IN  IF ~IsOk(offset) THEN Ran(offset, c, <<>>)
        ELSE Ran(Ok(DateTime_from_utc(local, offset.val)), c, <<>>)

\* TimeZone::from_local_datetime.
from_local_datetime(tz, local) ==
    LET c == <<Call("offset_from_local_datetime", local)>>
        offset == offset_from_local_datetime(tz, local)
    IN  IF ~IsOk(offset) THEN Ran(offset, c, <<>>)
        ELSE Ran(Ok(DateTime_from_utc(NaiveDateTime_sub(local, fix(offset.val)), offset.val)),
                 c, <<>>)

\* from_utc_date a day off.
from_utc_date_NextDay(tz, utc) ==
    LET c == <<Call("offset_from_utc_date", utc)>>
        offset == offset_from_utc_date(tz, utc)
    IN  IF ~IsOk(offset) THEN Ran(offset, c, <<>>)
        ELSE Ran(Ok(Date_from_utc(utc + 1, offset.val)), c, <<>>)

\* TimeZone::from_utc_date.
from_utc_date(tz, utc) ==
    LET c == <<Call("offset_from_utc_date", utc)>>
        offset == offset_from_utc_date(tz, utc)
    IN  IF ~IsOk(offset) THEN Ran(offset, c, <<>>)
        ELSE Ran(Ok(Date_from_utc(utc, offset.val)), c, <<>>)

\* TimeZone::from_utc_datetime.
from_utc_datetime(tz, utc) ==
    LET c == <<Call("offset_from_utc_datetime", utc)>>
        offset == offset_from_utc_datetime(tz, utc)
    IN  IF ~IsOk(offset) THEN Ran(offset, c, <<>>)
        ELSE Ran(Ok(DateTime_from_utc(utc, offset.val)), c, <<>>)

\* FixedTimeZone::from_utc_date_fixed (Utc is the implementer).
from_utc_date_fixed(tz, utc) ==
    Ran(Ok(Date_from_utc(utc, Utc_offset_from_utc_date_fixed(utc))),
        <<Call("offset_from_utc_date_fixed", utc)>>, <<>>)

\* FixedTimeZone::from_utc_datetime_fixed (Utc is the implementer).
from_utc_datetime_fixed(tz, utc) ==
    Ran(Ok(DateTime_from_utc(utc, Utc_offset_from_utc_datetime_fixed(utc))),
        <<Call("offset_from_utc_datetime_fixed", utc)>>, <<>>)

----------------------------------------------------------------------------
(* TimeZone: timestamps *)

\* Milliseconds in a second.
MillisPerSec == 1000

\* Nanoseconds in a second.
NanosPerSec == 1000000000

\* Nanoseconds in a millisecond.
NanosPerMilli == 1000000

\* TimeZone::timestamp.
timestamp(tz, secs, nsecs) ==
    LET c == <<Call("NaiveDateTime::from_timestamp", <<secs, nsecs>>)>>
        dt == NaiveDateTime_from_timestamp(secs, nsecs)
    IN  IF ~IsOk(dt) THEN Ran(dt, c, <<>>)
        ELSE LET r == from_utc_datetime(tz, dt.val)
             IN  Ran(r.out, c \o r.calls, <<>>)

\* FloorStep without the `if`: the truncated quotient and remainder.
FloorStep_Truncating(x, scale) ==
    [secs |-> TruncDivPow(x, LimbsOf(scale)), sub |-> TruncRemPow(x, LimbsOf(scale))]

\* The floor step of timestamp_millis and timestamp_nanos: the locals
\* (secs, sub-second count) after the `if`.
FloorStep(x, scale) ==
    LET k == LimbsOf(scale)
        q == TruncDivPow(x, k)
        r == TruncRemPow(x, k)
    IN  IF IsNeg(r)
        THEN [secs |-> Sub(q, FromInt(1)), sub |-> Add(r, FromInt(scale))]
        ELSE [secs |-> q, sub |-> r]

\* An arithmetic step of exact value v: with overflow checks the call
\* panics when v is out of range, without them v wraps.
Arith(v, inRange, wrapped, checked) ==
    IF inRange THEN Ok(v)
    ELSE IF checked THEN Panic("attempt to do arithmetic with overflow")
    ELSE Ok(wrapped)

\* timestamp_millis scaling the milliseconds as if to nanoseconds of a
\* count of seconds.
timestamp_millis_SecScale(tz, millis, checked) ==
    LET l == FloorStep(millis, MillisPerSec)
        secs == Arith(l.secs, InI64(l.secs), WrapI64(l.secs), checked)
        prod == MulPow(AsU32(l.sub), LimbsOf(NanosPerSec))
        nsecs == Arith(prod, InU32(prod), WrapU32(prod), checked)
    IN  IF ~IsOk(secs) THEN Ran(secs, <<>>, l)
        ELSE IF ~IsOk(nsecs) THEN Ran(nsecs, <<>>, l)
        ELSE LET r == timestamp(tz, secs.val, nsecs.val)
             IN  Ran(r.out, <<Call("timestamp", <<secs.val, nsecs.val>>)>> \o r.calls, l)

\* TimeZone::timestamp_millis; `checked` is the build's overflow checks.
timestamp_millis(tz, millis, checked) ==
    LET l == FloorStep(millis, MillisPerSec)
        secs == Arith(l.secs, InI64(l.secs), WrapI64(l.secs), checked)
        prod == MulPow(AsU32(l.sub), LimbsOf(NanosPerMilli))
        nsecs == Arith(prod, InU32(prod), WrapU32(prod), checked)
    IN  IF ~IsOk(secs) THEN Ran(secs, <<>>, l)
        ELSE IF ~IsOk(nsecs) THEN Ran(nsecs, <<>>, l)
        ELSE LET r == timestamp(tz, secs.val, nsecs.val)
             IN  Ran(r.out, <<Call("timestamp", <<secs.val, nsecs.val>>)>> \o r.calls, l)

\* timestamp_nanos dividing by the scale of timestamp_millis.
timestamp_nanos_MillisScale(tz, nanos, checked) ==
    LET l == FloorStep(nanos, MillisPerSec)
        r == timestamp(tz, l.secs, AsU32(l.sub))
    IN  Ran(r.out, <<Call("timestamp", <<l.secs, AsU32(l.sub)>>)>> \o r.calls, l)

\* TimeZone::timestamp_nanos; `checked` is the build's overflow checks.
timestamp_nanos(tz, nanos, checked) ==
    LET l == FloorStep(nanos, NanosPerSec)
        secs == Arith(l.secs, InI64(l.secs), WrapI64(l.secs), checked)
    IN  IF ~IsOk(secs) THEN Ran(secs, <<>>, l)
        ELSE LET r == timestamp(tz, secs.val, AsU32(l.sub))
             IN  Ran(r.out, <<Call("timestamp", <<secs.val, AsU32(l.sub)>>)>> \o r.calls, l)

----------------------------------------------------------------------------
(* LocalResult *)

Single(t) == [tag |-> "Single", t |-> t]

Ambiguous(min, max) == [tag |-> "Ambiguous", min |-> min, max |-> max]

Some(t) == [tag |-> "Some", val |-> t]

None == [tag |-> "None"]

\* LocalResult::single.
single(self) == IF self.tag = "Single" THEN Some(self.t) ELSE None

\* LocalResult::earliest.
earliest(self) == IF self.tag = "Single" THEN Some(self.t) ELSE Some(self.min)

\* latest taking the first candidate.
latest_First(self) == IF self.tag = "Single" THEN Some(self.t) ELSE Some(self.min)

\* LocalResult::latest.
latest(self) == IF self.tag = "Single" THEN Some(self.t) ELSE Some(self.max)

\* unwrap settling for the earlier candidate.
unwrap_Earliest(self) == IF self.tag = "Single" THEN Ok(self.t) ELSE Ok(self.min)

\* LocalResult::unwrap.
unwrap(self) ==
    IF self.tag = "Single" THEN Ok(self.t)
    ELSE Panic(<<"Ambiguous local time, ranging from", self.min, self.max>>)

\* The n-th call of the closure f, on x.  F is FnMut: what a call returns
\* may depend on the calls before it, here by a drift per earlier call.
Apply(f, n, x) == f.fn[x] + f.drift * (n - 1)

\* map applying f to the first candidate for both payloads.
map_FirstOnly(self, f) ==
    IF self.tag = "Single"
    THEN Ran(Single(Apply(f, 1, self.t)), <<Call("f", self.t)>>, <<>>)
    ELSE Ran(Ambiguous(Apply(f, 1, self.min), Apply(f, 2, self.min)),
             <<Call("f", self.min), Call("f", self.min)>>, <<>>)

\* LocalResult::map.
map(self, f) ==
    IF self.tag = "Single"
    THEN Ran(Single(Apply(f, 1, self.t)), <<Call("f", self.t)>>, <<>>)
    ELSE Ran(Ambiguous(Apply(f, 1, self.min), Apply(f, 2, self.max)),
             <<Call("f", self.min), Call("f", self.max)>>, <<>>)

----------------------------------------------------------------------------
(* Date combinations (collaborators) and LocalResult<Date<Tz>> *)

\* A time of day: seconds since midnight and nanoseconds (a count of 10^9
\* or more is a leap second).
NaiveTime(secs, frac) == [secs |-> secs, frac |-> frac]

\* NaiveTime::from_hms_nano and its milli, micro and whole-second forms:
\* `unit` is the number of nanoseconds in one unit of `sub`.
NaiveTime_from_hms_sub(hour, min, sec, sub, unit) ==
    IF hour >= 24 \/ min >= 60 \/ sec >= 60 \/ sub >= 2 * (NanosPerSec \div unit)
    THEN Err("InvalidTime")
    ELSE Ok(NaiveTime(hour * SecsPerHour + min * 60 + sec, sub * unit))

\* TimeZone::from_offset: the zone of a stored offset.  An implementer's
\* zone resolves a local value to the offset again, or fails, as the offset's
\* `re` says.
from_offset(o) ==
    IF o.kind = "Utc" THEN Utc_from_offset(o)
    ELSE LET a == IF o.re = "same" THEN Ok(o) ELSE Err(o.re)
         IN  ImplZone(a, a)

\* Date::and_time: the local date-time of the date and the time, resolved
\* by the date's zone.
Date_and_time(d, time) ==
    LET localdt == NaiveDateTime(FromInt(d.date * SecsPerDay + time.secs), FromInt(time.frac))
        r == from_local_datetime(from_offset(d.offset), localdt)
    IN  Ran(r.out, <<Call("Date::and_time", <<d, time>>)>> \o r.calls, <<>>)

\* Date::and_hms, and_hms_milli, and_hms_micro, and_hms_nano.
Date_and_hms_sub(d, hour, min, sec, sub, unit) ==
    LET c == <<Call("Date::and_hms", <<d, hour, min, sec, sub, unit>>)>>
        time == NaiveTime_from_hms_sub(hour, min, sec, sub, unit)
    IN  IF ~IsOk(time) THEN Ran(time, c, <<>>)
        ELSE LET r == Date_and_time(d, time.val)
             IN  Ran(r.out, c \o r.calls, <<>>)

\* The arm `LocalResult::Single(d) => Ok(LocalResult::Single(comb?))`.
WrapSingle(r) ==
    IF ~IsOk(r.out) THEN r ELSE Ran(Ok(Single(r.out.val)), r.calls, <<>>)

\* The arm `_ => Err(ChronoError::new(ChronoErrorKind::AmbiguousDate))`.
AmbiguousArm == Ran(Err("AmbiguousDate"), <<>>, <<>>)

\* LocalResult<Date<Tz>>::and_time.
and_time(self, time) ==
    IF self.tag = "Single" THEN WrapSingle(Date_and_time(self.t, time))
    ELSE AmbiguousArm

\* LocalResult<Date<Tz>>::and_hms.
and_hms(self, hour, min, sec) ==
    IF self.tag = "Single"
    THEN WrapSingle(Date_and_hms_sub(self.t, hour, min, sec, 0, NanosPerSec))
    ELSE AmbiguousArm

\* LocalResult<Date<Tz>>::and_hms_milli.
and_hms_milli(self, hour, min, sec, milli) ==
    IF self.tag = "Single"
    THEN WrapSingle(Date_and_hms_sub(self.t, hour, min, sec, milli, NanosPerMilli))
    ELSE AmbiguousArm

\* Nanoseconds in a microsecond.
NanosPerMicro == 1000

\* and_hms_micro scaling its count as milliseconds.
and_hms_micro_AsMilli(self, hour, min, sec, micro) ==
    IF self.tag = "Single"
    THEN WrapSingle(Date_and_hms_sub(self.t, hour, min, sec, micro, NanosPerMilli))
    ELSE AmbiguousArm

\* LocalResult<Date<Tz>>::and_hms_micro.
and_hms_micro(self, hour, min, sec, micro) ==
    IF self.tag = "Single"
    THEN WrapSingle(Date_and_hms_sub(self.t, hour, min, sec, micro, NanosPerMicro))
    ELSE AmbiguousArm

\* and_hms_nano combining the earlier candidate of an ambiguous date.
and_hms_nano_Earliest(self, hour, min, sec, nano) ==
    WrapSingle(Date_and_hms_sub(IF self.tag = "Single" THEN self.t ELSE self.min,
                                hour, min, sec, nano, 1))

\* LocalResult<Date<Tz>>::and_hms_nano.
and_hms_nano(self, hour, min, sec, nano) ==
    IF self.tag = "Single"
    THEN WrapSingle(Date_and_hms_sub(self.t, hour, min, sec, nano, 1))
    ELSE AmbiguousArm

----------------------------------------------------------------------------
(* Utc::now and Utc::today *)

\* Floor of x / d for a wide x >= 0 and a small d > 0, as a model integer
\* (the quotient is below 2^31): long division from limb i down, with the
\* quotient so far in q and the remainder so far in rem.
RECURSIVE DivSmall(_, _, _, _, _)
DivSmall(x, d, i, q, rem) ==
    IF i = 0 THEN q
    ELSE LET v == rem * Base + x[i]
         IN  DivSmall(x, d, i - 1, q * Base + (v \div d), v % d)

\* DateTime::date.
DateTime_date(dt) ==
    Date_from_utc(DivSmall(dt.datetime.secs, SecsPerDay, NLimbs, 0, 0), dt.offset)

\* SystemTime::now().duration_since(UNIX_EPOCH) on a clock reading of
\* clock.secs whole seconds (floor) and clock.nanos nanoseconds from the
\* epoch: Err when the reading is before the epoch.
duration_since_epoch(clock) ==
    IF IsNeg(clock.secs) THEN Err("SystemTimeError") ELSE Ok(clock)

\* Utc::now (the build that reads std's SystemTime).
Utc_now(clock) ==
    LET c == <<Call("SystemTime::now", clock)>>
        now == duration_since_epoch(clock)
    IN  IF ~IsOk(now) THEN Ran(Panic(<<"system time before Unix epoch", now>>), c, <<>>)
        ELSE LET naive == NaiveDateTime_from_timestamp(now.val.secs, FromInt(now.val.nanos))
             IN  IF ~IsOk(naive) THEN Ran(naive, c, <<>>)
                 ELSE Ran(Ok(DateTime_from_utc(naive.val, Utc)), c, <<>>)

\* Utc::today.
Utc_today(clock) ==
    LET r == Utc_now(clock)
    IN  IF ~IsOk(r.out) THEN r ELSE Ran(Ok(DateTime_date(r.out.val)), r.calls, <<>>)

----------------------------------------------------------------------------
(* Inputs *)

\* Whole multiples of a scale taken on each side of zero.
MaxQuot == 8

\* Distance from a multiple of a scale, and from the ends of i64.
MaxOff == 3

\* Naive dates are the days -MaxDay..MaxDay around the epoch.
MaxDay == 2

\* Offsets are whole hours -MaxOffsetHours..MaxOffsetHours east of UTC.
MaxOffsetHours == 1

\* Payloads of a LocalResult<T> of no particular T are 0..MaxPayload.
MaxPayload == 2

I64Inputs ==
    {Add(MulPow(FromInt(k), e), FromInt(j)) :
        k \in (0 - MaxQuot)..MaxQuot, e \in {1, 3}, j \in (0 - MaxOff)..MaxOff}
    \cup {Add(I64Min, FromInt(j)) : j \in 0..MaxOff}
    \cup {Sub(I64Max, FromInt(j)) : j \in 0..MaxOff}
    \cup {FromInt(0 - 60000), FromInt(0 - 3600000), FromInt(1431648000),
          MulPow(FromInt(0 - 60), 3), MulPow(FromInt(0 - 3600), 3),
          MulPow(FromInt(1431648), 2)}
    \cup {Add(MulPow(MaxTimestamp, 1), FromInt(j)) : j \in {999, 1000}}
    \cup {Add(MulPow(MinTimestamp, 1), FromInt(j)) : j \in {0 - 1, 0}}

U32Max == Sub(TwoPow32, FromInt(1))

SecsInputs ==
    {FromInt(k) : k \in (0 - MaxOff)..MaxOff}
    \cup {Add(MinTimestamp, FromInt(j)) : j \in (0 - 1)..0}
    \cup {Add(MaxTimestamp, FromInt(j)) : j \in 0..1}
    \cup {I64Min, I64Max, FromInt(1431648000)}

NsecsInputs ==
    {FromInt(0), FromInt(NanosPerSec - 1), FromInt(NanosPerSec),
     FromInt(2 * NanosPerSec - 1), FromInt(2 * NanosPerSec), U32Max}

NaiveDates == (0 - MaxDay)..MaxDay

NaiveDateTimes ==
    {NaiveDateTime(FromInt(d * SecsPerDay + s), FromInt(n)) :
        d \in NaiveDates, s \in {0, SecsPerDay - 1}, n \in {0, NanosPerSec - 1}}

OffsetSecs == {h * SecsPerHour : h \in (0 - MaxOffsetHours)..MaxOffsetHours}

\* Offsets an implementer's resolvers answer.
ImplOffsets == {ImplOffset(s, "same") : s \in OffsetSecs}

\* Offsets a stored date may carry: also those whose zone no longer resolves.
StoredOffsets ==
    {Utc} \cup ImplOffsets
    \cup {ImplOffset(s, "InvalidDateTime") : s \in OffsetSecs}

ImplAnswers == {Ok(o) : o \in ImplOffsets} \cup {Err("InvalidDate")}

Zones == {Utc} \cup {ImplZone(l, u) : l \in ImplAnswers, u \in ImplAnswers}

\* Zones whose resolvers all answer one constant offset.
ConstZones == {Utc} \cup {ImplZone(Ok(o), Ok(o)) : o \in ImplOffsets}

Dates == {Date_from_utc(d, o) : d \in NaiveDates, o \in StoredOffsets}

DateResults ==
    {Single(d) : d \in Dates}
    \cup {Ambiguous(Date_from_utc(d, a), Date_from_utc(d, b)) :
            d \in NaiveDates, a \in ImplOffsets, b \in ImplOffsets}
    \cup {Ambiguous(Date_from_utc(d, Utc), Date_from_utc(d, Utc)) : d \in NaiveDates}

NaiveTimes == {NaiveTime(s, f) : s \in {0, SecsPerDay - 1}, f \in {0, 2 * NanosPerSec - 1}}

Hours == {0, 23, 24}

Mins == {0, 60}

Secs == {59, 60}

\* Sub-second counts around the limit for a unit of `unit` nanoseconds.
Subs(unit) ==
    LET lim == 2 * (NanosPerSec \div unit) IN {0, lim \div 2, lim - 1, lim}

\* Zones for the calendar constructors: also those whose local-date
\* resolver fails with each kind of error.
DateZones == Zones \cup {ImplZone(Err(k), Err(k)) : k \in ErrorKind}

Years == {MinYear - 1, MinYear, EpochYear - 1, EpochYear, 2015, 2016, MaxYear, MaxYear + 1}

Months == {0, 1, 2, 5, 12, 13}

Days == {0, 1, 15, 28, 29, 30, 31, 32}

Ordinals == {0, 1, 135, 365, 366, 367}

Weeks == {0, 1, 20, 52, 53, 54}

Weekdays == 0..6

Payloads == 0..MaxPayload

LocalResults ==
    {Single(t) : t \in Payloads} \cup {Ambiguous(a, b) : a \in Payloads, b \in Payloads}

\* Closures handed to map: every function on the payloads, pure
\* (drift 0) or answering one more on each later call (drift 1).
Closures == {[fn |-> g, drift |-> k] : g \in [Payloads -> Payloads], k \in {0, 1}}

ClockReadings ==
    {[secs |-> s, nanos |-> n] :
        s \in {FromInt(k) : k \in (0 - MaxOff)..MaxOff}
              \cup {FromInt(1431648000), MaxTimestamp, Add(MaxTimestamp, FromInt(1))},
        n \in {0, NanosPerSec - 1}}

----------------------------------------------------------------------------
(* The operations *)

Init ==
    /\ op = "init"
    /\ args = <<>>
    /\ locals = <<>>
    /\ calls = <<>>
    /\ result = Ok(<<>>)

\* The caller has made no call yet.
Idle == op = "init"

\* A call on inputs `a` that ran as `r`.
Did(a, r) ==
    /\ args' = a
    /\ locals' = r.locals
    /\ calls' = r.calls
    /\ result' = r.out

\* A call on inputs `a` of a function that only returns `v`.
Returned(a, v) == Did(a, Ran(v, <<>>, <<>>))

TimestampMillis ==
    /\ Idle
    /\ \E tz \in Zones, x \in I64Inputs, checked \in BOOLEAN :
        /\ op' = "timestamp_millis"
        /\ Did([tz |-> tz, x |-> x, checked |-> checked], timestamp_millis(tz, x, checked))

TimestampNanos ==
    /\ Idle
    /\ \E tz \in Zones, x \in I64Inputs, checked \in BOOLEAN :
        /\ op' = "timestamp_nanos"
        /\ Did([tz |-> tz, x |-> x, checked |-> checked], timestamp_nanos(tz, x, checked))

Timestamp ==
    /\ Idle
    /\ \E tz \in Zones, secs \in SecsInputs, nsecs \in NsecsInputs :
        /\ op' = "timestamp"
        /\ Did([tz |-> tz, secs |-> secs, nsecs |-> nsecs], timestamp(tz, secs, nsecs))

UtcNow ==
    /\ Idle
    /\ \E clock \in ClockReadings :
        /\ op' = "Utc::now"
        /\ Did([clock |-> clock], Utc_now(clock))

UtcToday ==
    /\ Idle
    /\ \E clock \in ClockReadings :
        /\ op' = "Utc::today"
        /\ Did([clock |-> clock], Utc_today(clock))

AndTime ==
    /\ Idle
    /\ \E self \in DateResults, time \in NaiveTimes :
        /\ op' = "and_time"
        /\ Did([self |-> self, time |-> time], and_time(self, time))

AndHms ==
    /\ Idle
    /\ \E self \in DateResults, h \in Hours, m \in Mins, s \in Secs :
        /\ op' = "and_hms"
        /\ Did([self |-> self, hour |-> h, min |-> m, sec |-> s, sub |-> 0],
               and_hms(self, h, m, s))

AndHmsMilli ==
    /\ Idle
    /\ \E self \in DateResults, h \in Hours, m \in Mins, s \in Secs,
          f \in Subs(NanosPerMilli) :
        /\ op' = "and_hms_milli"
        /\ Did([self |-> self, hour |-> h, min |-> m, sec |-> s, sub |-> f],
               and_hms_milli(self, h, m, s, f))

AndHmsMicro ==
    /\ Idle
    /\ \E self \in DateResults, h \in Hours, m \in Mins, s \in Secs,
          f \in Subs(NanosPerMicro) :
        /\ op' = "and_hms_micro"
        /\ Did([self |-> self, hour |-> h, min |-> m, sec |-> s, sub |-> f],
               and_hms_micro(self, h, m, s, f))

AndHmsNano ==
    /\ Idle
    /\ \E self \in DateResults, h \in Hours, m \in Mins, s \in Secs, f \in Subs(1) :
        /\ op' = "and_hms_nano"
        /\ Did([self |-> self, hour |-> h, min |-> m, sec |-> s, sub |-> f],
               and_hms_nano(self, h, m, s, f))

SingleOp ==
    /\ Idle
    /\ \E self \in LocalResults :
        /\ op' = "single"
        /\ Returned([self |-> self], single(self))

EarliestOp ==
    /\ Idle
    /\ \E self \in LocalResults :
        /\ op' = "earliest"
        /\ Returned([self |-> self], earliest(self))

LatestOp ==
    /\ Idle
    /\ \E self \in LocalResults :
        /\ op' = "latest"
        /\ Returned([self |-> self], latest(self))

UnwrapOp ==
    /\ Idle
    /\ \E self \in LocalResults :
        /\ op' = "unwrap"
        /\ Returned([self |-> self], unwrap(self))

UtcOffsetFromLocalDate ==
    /\ Idle
    /\ \E local \in NaiveDates :
        /\ op' = "Utc::offset_from_local_date"
        /\ Returned([on |-> local], Utc_offset_from_local_date(local))

UtcOffsetFromLocalDatetime ==
    /\ Idle
    /\ \E local \in NaiveDateTimes :
        /\ op' = "Utc::offset_from_local_datetime"
        /\ Returned([on |-> local], Utc_offset_from_local_datetime(local))

UtcOffsetFromUtcDate ==
    /\ Idle
    /\ \E utc \in NaiveDates :
        /\ op' = "Utc::offset_from_utc_date"
        /\ Returned([on |-> utc], Utc_offset_from_utc_date(utc))

UtcOffsetFromUtcDatetime ==
    /\ Idle
    /\ \E utc \in NaiveDateTimes :
        /\ op' = "Utc::offset_from_utc_datetime"
        /\ Returned([on |-> utc], Utc_offset_from_utc_datetime(utc))

UtcOffsetFromUtcDateFixed ==
    /\ Idle
    /\ \E utc \in NaiveDates :
        /\ op' = "Utc::offset_from_utc_date_fixed"
        /\ Returned([on |-> utc], Ok(Utc_offset_from_utc_date_fixed(utc)))

UtcOffsetFromUtcDatetimeFixed ==
    /\ Idle
    /\ \E utc \in NaiveDateTimes :
        /\ op' = "Utc::offset_from_utc_datetime_fixed"
        /\ Returned([on |-> utc], Ok(Utc_offset_from_utc_datetime_fixed(utc)))

UtcResolvers ==
    {"Utc::offset_from_local_date", "Utc::offset_from_local_datetime",
     "Utc::offset_from_utc_date", "Utc::offset_from_utc_datetime",
     "Utc::offset_from_utc_date_fixed", "Utc::offset_from_utc_datetime_fixed"}

\* fix() on the offset the preceding Utc resolver call returned.
FixOp ==
    /\ op \in UtcResolvers
    /\ IsOk(result)
    /\ op' = "fix"
    /\ Returned([self |-> result.val, by |-> op, on |-> args.on], Ok(fix(result.val)))

FromLocalDate ==
    /\ Idle
    /\ \E tz \in Zones, local \in NaiveDates :
        /\ op' = "from_local_date"
        /\ Did([tz |-> tz, local |-> local], from_local_date(tz, local))

FromLocalDatetime ==
    /\ Idle
    /\ \E tz \in Zones, local \in NaiveDateTimes :
        /\ op' = "from_local_datetime"
        /\ Did([tz |-> tz, local |-> local], from_local_datetime(tz, local))

\* from_utc_date on a fresh date.
FromUtcDate ==
    /\ Idle
    /\ \E tz \in Zones, utc \in NaiveDates :
        /\ op' = "from_utc_date"
        /\ Did([tz |-> tz, utc |-> utc, of |-> None], from_utc_date(tz, utc))

\* from_utc_date on the calendar value stored in the Date the preceding
\* from_local_date returned (`of` keeps that call).
FromUtcDateOfLocal ==
    /\ op = "from_local_date"
    /\ IsOk(result)
    /\ op' = "from_utc_date"
    /\ Did([tz |-> args.tz, utc |-> result.val.date,
            of |-> Some([local |-> args.local, date |-> result.val])],
           from_utc_date(args.tz, result.val.date))

FromUtcDateFixed ==
    /\ Idle
    /\ \E utc \in NaiveDates :
        /\ op' = "from_utc_date_fixed"
        /\ Did([tz |-> Utc, utc |-> utc, of |-> None], from_utc_date_fixed(Utc, utc))

\* from_utc_date_fixed, likewise, on the Date Utc.from_local_date returned.
FromUtcDateFixedOfLocal ==
    /\ op = "from_local_date"
    /\ args.tz = Utc
    /\ IsOk(result)
    /\ op' = "from_utc_date_fixed"
    /\ Did([tz |-> Utc, utc |-> result.val.date,
            of |-> Some([local |-> args.local, date |-> result.val])],
           from_utc_date_fixed(Utc, result.val.date))

\* from_utc_datetime on a fresh value.
FromUtcDatetime ==
    /\ Idle
    /\ \E tz \in Zones, utc \in NaiveDateTimes :
        /\ op' = "from_utc_datetime"
        /\ Did([tz |-> tz, utc |-> utc, of |-> None], from_utc_datetime(tz, utc))

\* from_utc_datetime on l - o.fix(), for the local l and the offset o of the
\* preceding from_local_datetime (`of` keeps that call).
FromUtcDatetimeOfLocal ==
    /\ op = "from_local_datetime"
    /\ IsOk(result)
    /\ op' = "from_utc_datetime"
    /\ LET utc == NaiveDateTime_sub(args.local, fix(result.val.offset))
       IN  Did([tz |-> args.tz, utc |-> utc,
                of |-> Some([local |-> args.local, datetime |-> result.val,
                             calls |-> calls])],
               from_utc_datetime(args.tz, utc))

FromUtcDatetimeFixed ==
    /\ Idle
    /\ \E utc \in NaiveDateTimes :
        /\ op' = "from_utc_datetime_fixed"
        /\ Did([tz |-> Utc, utc |-> utc], from_utc_datetime_fixed(Utc, utc))

Ymd ==
    /\ Idle
    /\ \E tz \in DateZones, year \in Years, month \in Months, day \in Days :
        /\ op' = "ymd"
        /\ Did([tz |-> tz, year |-> year, month |-> month, day |-> day],
               ymd(tz, year, month, day))

Yo ==
    /\ Idle
    /\ \E tz \in DateZones, year \in Years, ordinal \in Ordinals :
        /\ op' = "yo"
        /\ Did([tz |-> tz, year |-> year, ordinal |-> ordinal], yo(tz, year, ordinal))

Isoywd ==
    /\ Idle
    /\ \E tz \in DateZones, year \in Years, week \in Weeks, weekday \in Weekdays :
        /\ op' = "isoywd"
        /\ Did([tz |-> tz, year |-> year, week |-> week, weekday |-> weekday],
               isoywd(tz, year, week, weekday))

MapOp ==
    /\ Idle
    /\ \E self \in LocalResults, f \in Closures :
        /\ op' = "map"
        /\ Did([self |-> self, f |-> f], map(self, f))

Next ==
    \/ TimestampMillis
    \/ TimestampNanos
    \/ Timestamp
    \/ UtcNow
    \/ UtcToday
    \/ AndTime
    \/ AndHms
    \/ AndHmsMilli
    \/ AndHmsMicro
    \/ AndHmsNano
    \/ SingleOp
    \/ EarliestOp
    \/ LatestOp
    \/ UnwrapOp
    \/ UtcOffsetFromLocalDate
    \/ UtcOffsetFromLocalDatetime
    \/ UtcOffsetFromUtcDate
    \/ UtcOffsetFromUtcDatetime
    \/ UtcOffsetFromUtcDateFixed
    \/ UtcOffsetFromUtcDatetimeFixed
    \/ FixOp
    \/ FromLocalDate
    \/ FromLocalDatetime
    \/ FromUtcDate
    \/ FromUtcDateOfLocal
    \/ FromUtcDateFixed
    \/ FromUtcDateFixedOfLocal
    \/ FromUtcDatetime
    \/ FromUtcDatetimeOfLocal
    \/ FromUtcDatetimeFixed
    \/ Ymd
    \/ Yo
    \/ Isoywd
    \/ MapOp

Spec == Init /\ [][Next]_vars

----------------------------------------------------------------------------
(* Properties *)

\* The scale of the operation at hand.
ScaleOf(o) == IF o = "timestamp_millis" THEN MillisPerSec ELSE NanosPerSec

\* C1: for every i64 x, timestamp_millis (scale 1000) and timestamp_nanos
\* (scale 10^9) call timestamp with a whole-second count q and hold a
\* sub-second count r with 0 <= r < scale and q * scale + r = x; x = -1000 ms
\* gives (-1, 0) and x = -7001 ms gives (-8, 999).
C1_FloorPair ==
    op \in {"timestamp_millis", "timestamp_nanos"} =>
        /\ Len(calls) >= 1
        /\ calls[1].fn = "timestamp"
        /\ LET q == calls[1].arg[1]
               r == locals.sub
               scale == ScaleOf(op)
           IN  /\ q = locals.secs
               /\ ~IsNeg(r)
               /\ Less(r, FromInt(scale))
               /\ Add(MulPow(q, LimbsOf(scale)), r) = args.x
               /\ (op = "timestamp_millis" /\ args.x = FromInt(0 - 1000))
                    => (q = FromInt(0 - 1) /\ r = FromInt(0))
               /\ (op = "timestamp_millis" /\ args.x = FromInt(0 - 7001))
                    => (q = FromInt(0 - 8) /\ r = FromInt(999))

C1_Witness ==
    /\ op = "timestamp_millis"
    /\ args.x = FromInt(0 - 7001)
    /\ locals = [secs |-> FromInt(0 - 8), sub |-> FromInt(999)]

\* C2: Utc.timestamp_nanos(n) returns Ok for every i64 n, i64::MIN, i64::MAX
\* and 0 included: the sub-second count is a nanosecond count below 10^9 and
\* the whole-second count is one the naive date-time constructor accepts.
C2_NanosNeverFails ==
    (op = "timestamp_nanos" /\ args.tz = Utc) =>
        /\ IsOk(result)
        /\ ~IsNeg(locals.sub)
        /\ Less(locals.sub, FromInt(NanosPerSec))
        /\ LessEq(MinTimestamp, locals.secs)
        /\ LessEq(locals.secs, MaxTimestamp)
        /\ result.val.datetime = NaiveDateTime(locals.secs, locals.sub)

C2_Witness ==
    /\ op = "timestamp_nanos"
    /\ args.tz = Utc
    /\ args.x = I64Min
    /\ IsOk(result)

\* C3: Utc::now() returns Err(SystemTimeBeforeEpoch) exactly when the clock
\* reads an instant before the epoch, returns Ok for a reading at or after
\* the epoch, and never aborts.
C3_NowErrIffBeforeEpoch ==
    op = "Utc::now" =>
        /\ result.tag # "Panic"
        /\ (result = Err("SystemTimeBeforeEpoch")) <=> IsNeg(args.clock.secs)
        /\ ~IsNeg(args.clock.secs) => IsOk(result)

AndOps == {"and_time", "and_hms", "and_hms_milli", "and_hms_micro", "and_hms_nano"}

\* C4: on Ambiguous(a, b), and_time, and_hms, and_hms_milli, and_hms_micro
\* and and_hms_nano return Err(AmbiguousDate) whatever the time argument,
\* valid or not, and combine neither candidate with it.
C4_AmbiguousShortCircuits ==
    (op \in AndOps /\ args.self.tag = "Ambiguous") =>
        /\ result = Err("AmbiguousDate")
        /\ calls = <<>>

C4_Witness ==
    /\ op = "and_hms_nano"
    /\ args.self.tag = "Ambiguous"
    /\ args.hour = 24
    /\ result = Err("AmbiguousDate")

\* The combination of the same name on the date d.
CombinationOn(d) ==
    CASE op = "and_time" -> Date_and_time(d, args.time)
      [] op = "and_hms" ->
            Date_and_hms_sub(d, args.hour, args.min, args.sec, 0, NanosPerSec)
      [] op = "and_hms_milli" ->
            Date_and_hms_sub(d, args.hour, args.min, args.sec, args.sub, NanosPerMilli)
      [] op = "and_hms_micro" ->
            Date_and_hms_sub(d, args.hour, args.min, args.sec, args.sub, NanosPerMicro)
      [] op = "and_hms_nano" ->
            Date_and_hms_sub(d, args.hour, args.min, args.sec, args.sub, 1)

C6_Accessors ==
    /\ (op \in {"single", "earliest", "latest"} /\ args.self.tag = "Single")
         => result = Some(args.self.t)
    /\ (op = "single" /\ args.self.tag = "Ambiguous") => result = None
    /\ (op = "earliest" /\ args.self.tag = "Ambiguous") => result = Some(args.self.min)
    /\ (op = "latest" /\ args.self.tag = "Ambiguous") => result = Some(args.self.max)
    /\ op \in {"earliest", "latest"} => result # None

C6_Witness ==
    /\ op = "latest"
    /\ args.self.tag = "Ambiguous"
    /\ args.self.min # args.self.max
    /\ result = Some(args.self.max)

\* C7: unwrap returns t on Single(t) and aborts on Ambiguous(a, b); it
\* never returns a value out of an Ambiguous.
C7_UnwrapAborts ==
    op = "unwrap" =>
        /\ args.self.tag = "Single" => result = Ok(args.self.t)
        /\ args.self.tag = "Ambiguous" => result.tag = "Panic"

C7_Witness ==
    /\ op = "unwrap"
    /\ args.self.tag = "Ambiguous"
    /\ args.self.min # args.self.max
    /\ result.tag = "Panic"

\* C8: the six Utc resolvers succeed on every naive date and date-time and
\* return Utc, whose fix() is the zero FixedOffset.
C8_UtcResolvesToZero ==
    /\ op \in UtcResolvers => result = Ok(Utc)
    /\ op = "fix" =>
        /\ args.self = Utc
        /\ result = Ok([kind |-> "FixedOffset", secs |-> 0])

C8_Witness ==
    /\ op = "fix"
    /\ args.by = "Utc::offset_from_local_datetime"
    /\ result.val.secs = 0

\* C9: for a zone of one constant offset and every naive date d,
\* from_local_date(d) succeeds, and from_utc_date (or from_utc_date_fixed)
\* on the calendar value it stored succeeds with calendar value d and the
\* offset of the first step.
C9_DateRoundTrip ==
    /\ (op = "from_local_date" /\ args.tz \in ConstZones) =>
         (IsOk(result) /\ DOMAIN result.val = {"date", "offset"})
    /\ (op \in {"from_utc_date", "from_utc_date_fixed"} /\ args.of # None
        /\ args.tz \in ConstZones) =>
         /\ IsOk(result)
         /\ DOMAIN result.val = {"date", "offset"}
         /\ result.val.date = args.of.val.local
         /\ result.val.offset = args.of.val.date.offset

C9_Witness ==
    /\ op = "from_utc_date"
    /\ args.of # None
    /\ args.tz.kind = "Impl"
    /\ args.tz \in ConstZones
    /\ args.of.val.local = 1
    /\ result = Ok(Date_from_utc(1, args.tz.utc.val))

\* C10: from_local_datetime(l) calls offset_from_local_datetime once and,
\* on the offset o, returns the DateTime of UTC value l - o.fix() and offset
\* o; from_utc_datetime(u) returns the DateTime of UTC value u and the
\* offset of offset_from_utc_datetime(u); so in a zone of one constant
\* offset from_utc_datetime(l - o.fix()) is from_local_datetime(l).
C10_DatetimeConversions ==
    /\ op = "from_local_datetime" =>
         LET o == offset_from_local_datetime(args.tz, args.local)
         IN  /\ calls = <<Call("offset_from_local_datetime", args.local)>>
             /\ ~IsOk(o) => result = o
             /\ IsOk(o) =>
                  /\ IsOk(result)
                  /\ result.val.offset = o.val
                  /\ Add(result.val.datetime.secs, FromInt(fix(o.val).secs))
                       = args.local.secs
                  /\ result.val.datetime.nsecs = args.local.nsecs
    /\ op = "from_utc_datetime" =>
         LET o == offset_from_utc_datetime(args.tz, args.utc)
         IN  /\ calls = <<Call("offset_from_utc_datetime", args.utc)>>
             /\ ~IsOk(o) => result = o
             /\ IsOk(o) => result = Ok([datetime |-> args.utc, offset |-> o.val])
    /\ (op = "from_utc_datetime" /\ args.of # None /\ args.tz \in ConstZones) =>
         result = Ok(args.of.val.datetime)

C10_Witness ==
    /\ op = "from_utc_datetime"
    /\ args.of # None
    /\ args.tz \in ConstZones
    /\ fix(result.val.offset).secs = SecsPerHour
    /\ result = Ok(args.of.val.datetime)
    /\ Add(result.val.datetime.secs, FromInt(SecsPerHour)) = args.of.val.local.secs

\* The calendar constructor an operation calls, applied to its inputs.
NaiveDateOf(o, a) ==
    IF o = "ymd" THEN NaiveDate_from_ymd(a.year, a.month, a.day)
    ELSE IF o = "yo" THEN NaiveDate_from_yo(a.year, a.ordinal)
    ELSE NaiveDate_from_isoywd(a.year, a.week, a.weekday)

\* C11: ymd, yo and isoywd on any zone: when the naive constructor rejects
\* the coordinates the call returns that InvalidDate error and
\* offset_from_local_date is never called; when it accepts them the
\* outcome is that of from_local_date on the constructed date, so an error
\* of the resolver reaches the caller with its own kind.
C11_CalendarConstructors ==
    op \in {"ymd", "yo", "isoywd"} =>
        LET d == NaiveDateOf(op, args)
        IN  /\ ~IsOk(d) =>
                 /\ result = d
                 /\ result = Err("InvalidDate")
                 /\ \A i \in 1..Len(calls) : calls[i].fn # "offset_from_local_date"
            /\ IsOk(d) =>
                 LET o == offset_from_local_date(args.tz, d.val)
                 IN  /\ result = from_local_date(args.tz, d.val).out
                     /\ Len(calls) = 2
                     /\ calls[2] = Call("offset_from_local_date", d.val)
                     /\ ~IsOk(o) => result = o
                     /\ IsOk(o) => result = Ok(Date_from_utc(d.val, o.val))

C11_Witness ==
    /\ op = "ymd"
    /\ args.year = 2015 /\ args.month = 5 /\ args.day = 15
    /\ args.tz.kind = "Impl"
    /\ args.tz.local = Err("AmbiguousDate")
    /\ result = Err("AmbiguousDate")
    /\ Len(calls) = 2

\* An Ambiguous value holds the earlier candidate first; payloads are
\* instants ordered as the integers.
Ordered(r) == r.tag = "Ambiguous" => r.min <= r.max

\* f is a pure function that keeps the order of its arguments.
OrderPreserving(f) ==
    /\ f.drift = 0
    /\ \A x \in DOMAIN f.fn, y \in DOMAIN f.fn : x <= y => f.fn[x] <= f.fn[y]

\* map keeps the variant and applies f to the payloads in their places,
\* the first payload first.
MapInPlace ==
    /\ result.tag = args.self.tag
    /\ args.self.tag = "Single" =>
         /\ result = Single(Apply(args.f, 1, args.self.t))
         /\ calls = <<Call("f", args.self.t)>>
    /\ args.self.tag = "Ambiguous" =>
         /\ result.min = Apply(args.f, 1, args.self.min)
         /\ result.max = Apply(args.f, 2, args.self.max)
         /\ calls = <<Call("f", args.self.min), Call("f", args.self.max)>>

\* C12 as stated: map(f) keeps the variant, applies f to the first payload
\* for the new min and to the second for the new max, and applied to an
\* Ambiguous value with min the earlier and max the later candidate yields
\* an Ambiguous value with min the earlier and max the later, for every f.
C12_MapKeepsOrderForAnyF ==
    op = "map" => /\ MapInPlace
                  /\ Ordered(args.self) => Ordered(result)

\* C12, amended: map(f) keeps the variant, applies f to the first payload
\* for the new min and to the second for the new max; applied to an
\* Ambiguous value with min the earlier and max the later candidate it
\* yields such a value when f is a pure order-preserving function.
C12_MapKeepsOrderOfMonotoneF ==
    op = "map" => /\ MapInPlace
                  /\ (Ordered(args.self) /\ OrderPreserving(args.f)) => Ordered(result)

C12_Witness ==
    /\ op = "map"
    /\ args.self = Ambiguous(0, 1)
    /\ OrderPreserving(args.f)
    /\ args.f.fn[0] = 1 /\ args.f.fn[1] = 2
    /\ result = Ambiguous(1, 2)

\* A second count NaiveDateTime::from_timestamp accepts.
SecsInRange(secs) == ~Less(secs, MinTimestamp) /\ ~Less(MaxTimestamp, secs)

\* The arithmetic of timestamp_millis stays in range: the quotient after
\* the decrement is an i64, the remainder is in [0, 999] and its cast to
\* u32 is the same number, the product with 1 000 000 is a u32 at most
\* 999 000 000, and timestamp receives these numbers, in either build.
MillisArithmeticExact ==
    /\ result.tag \in {"Ok", "Err"}
    /\ InI64(locals.secs)
    /\ ~IsNeg(locals.sub)
    /\ Less(locals.sub, FromInt(MillisPerSec))
    /\ AsU32(locals.sub) = locals.sub
    /\ LET prod == MulPow(locals.sub, LimbsOf(NanosPerMilli))
       IN  /\ InU32(prod)
           /\ ~Less(FromInt(999000000), prod)
           /\ Less(prod, FromInt(NanosPerSec))
           /\ Len(calls) >= 2
           /\ calls[1] = Call("timestamp", <<locals.secs, prod>>)
           /\ calls[2] = Call("NaiveDateTime::from_timestamp", <<locals.secs, prod>>)

====
